---- MODULE Spec2Model ----
(***************************************************************************)
(* Model of the Daydev utils module: package crypto (GenerateRefreshToken, *)
(* HashToken) and package logx1 (New, Sync, WithContext, FromContext,      *)
(* AttachRequest, ReplaceGlobals, LogError).                               *)
(*                                                                         *)
(* Go strings and byte slices are sequences of bytes (0..255).  32-bit     *)
(* words of the digest are pairs <<hi, lo>> of 16-bit halves, so that all  *)
(* arithmetic stays modulo 2^32 without leaving the range of integers the  *)
(* model checker supports.                                                 *)
(***************************************************************************)
EXTENDS Integers, Sequences, FiniteSets, TLC

\* ------------------------------------------------------------------------
\* Bytes and text
\* ------------------------------------------------------------------------

\* The ASCII codes of the characters the program's tables and literals use.
CharCode ==
  [c \in {"A","B","C","D","E","F","G","H","I","J","K","L","M","N","O","P","Q",
          "R","S","T","U","V","W","X","Y","Z","a","b","c","d","e","f","g","h",
          "i","j","k","l","m","n","o","p","q","r","s","t","u","v","w","x","y",
          "z","0","1","2","3","4","5","6","7","8","9","-","_"} |->
     CASE c = "A" -> 65 [] c = "B" -> 66 [] c = "C" -> 67 [] c = "D" -> 68
       [] c = "E" -> 69 [] c = "F" -> 70 [] c = "G" -> 71 [] c = "H" -> 72
       [] c = "I" -> 73 [] c = "J" -> 74 [] c = "K" -> 75 [] c = "L" -> 76
       [] c = "M" -> 77 [] c = "N" -> 78 [] c = "O" -> 79 [] c = "P" -> 80
       [] c = "Q" -> 81 [] c = "R" -> 82 [] c = "S" -> 83 [] c = "T" -> 84
       [] c = "U" -> 85 [] c = "V" -> 86 [] c = "W" -> 87 [] c = "X" -> 88
       [] c = "Y" -> 89 [] c = "Z" -> 90
       [] c = "a" -> 97 [] c = "b" -> 98 [] c = "c" -> 99 [] c = "d" -> 100
       [] c = "e" -> 101 [] c = "f" -> 102 [] c = "g" -> 103 [] c = "h" -> 104
       [] c = "i" -> 105 [] c = "j" -> 106 [] c = "k" -> 107 [] c = "l" -> 108
       [] c = "m" -> 109 [] c = "n" -> 110 [] c = "o" -> 111 [] c = "p" -> 112
       [] c = "q" -> 113 [] c = "r" -> 114 [] c = "s" -> 115 [] c = "t" -> 116
       [] c = "u" -> 117 [] c = "v" -> 118 [] c = "w" -> 119 [] c = "x" -> 120
       [] c = "y" -> 121 [] c = "z" -> 122
       [] c = "0" -> 48 [] c = "1" -> 49 [] c = "2" -> 50 [] c = "3" -> 51
       [] c = "4" -> 52 [] c = "5" -> 53 [] c = "6" -> 54 [] c = "7" -> 55
       [] c = "8" -> 56 [] c = "9" -> 57
       [] c = "-" -> 45 [] c = "_" -> 95]

\* A literal, written as a tuple of one-character strings, as a Go string.
Str(chars) == [i \in 1..Len(chars) |-> CharCode[chars[i]]]

\* A loop "for i := lo; i <= hi; i++ { v = Step(v, i) }": the value of v after
\* it.  The range is split in halves, and the first half is computed before
\* the second starts, which keeps the evaluation shallow.
RECURSIVE Iterate(_, _, _, _)
Iterate(Step(_, _), v, lo, hi) ==
  IF lo > hi THEN v
  ELSE IF lo = hi THEN Step(v, lo)
  ELSE LET mid == (lo + hi) \div 2
       IN  CHOOSE r \in {Iterate(Step, left, mid + 1, hi) :
                           left \in {Iterate(Step, v, lo, mid)}} : TRUE

\* ------------------------------------------------------------------------
\* encoding/base64: RawURLEncoding.EncodeToString
\* ------------------------------------------------------------------------

encodeURL ==
  Str(<<"A","B","C","D","E","F","G","H","I","J","K","L","M","N","O","P",
        "Q","R","S","T","U","V","W","X","Y","Z","a","b","c","d","e","f",
        "g","h","i","j","k","l","m","n","o","p","q","r","s","t","u","v",
        "w","x","y","z","0","1","2","3","4","5","6","7","8","9","-","_">>)

\* encode[val>>shift & 0x3F]
B64Char(val, shift) == encodeURL[((val \div (2^shift)) % 64) + 1]

\* One pass of the loop over whole 3-byte groups: group g (0-based) of src
\* appended to dst.
B64Group(src, dst, g) ==
  LET val == src[3*g + 1] * 65536 + src[3*g + 2] * 256 + src[3*g + 3]
  IN  dst \o <<B64Char(val, 18), B64Char(val, 12), B64Char(val, 6), B64Char(val, 0)>>

\* Mutant of B64Tail: the padded encoding, which fills the last group with '='.
B64TailPadded(src, si) ==
  LET remain == Len(src) - si
      val == src[si+1] * 65536 + (IF remain = 2 THEN src[si+2] * 256 ELSE 0)
  IN  IF remain = 0 THEN << >>
      ELSE IF remain = 2
           THEN <<B64Char(val, 18), B64Char(val, 12), B64Char(val, 6), 61>>
           ELSE <<B64Char(val, 18), B64Char(val, 12), 61, 61>>

\* The remaining 1 or 2 bytes; RawURLEncoding has NoPadding, so no padding follows.
B64Tail(src, si) ==
  LET remain == Len(src) - si
      val == src[si+1] * 65536 + (IF remain = 2 THEN src[si+2] * 256 ELSE 0)
  IN  IF remain = 0 THEN << >>
      ELSE IF remain = 2
           THEN <<B64Char(val, 18), B64Char(val, 12), B64Char(val, 6)>>
           ELSE <<B64Char(val, 18), B64Char(val, 12)>>

EncodeToString(src) ==
  LET n == (Len(src) \div 3) * 3
  IN  Iterate(LAMBDA dst, g : B64Group(src, dst, g), << >>, 0, (n \div 3) - 1)
        \o B64Tail(src, n)

\* ------------------------------------------------------------------------
\* encoding/hex: EncodeToString
\* ------------------------------------------------------------------------

\* Mutant of hextable: upper-case digits.
hextableUpper ==
  Str(<<"0","1","2","3","4","5","6","7","8","9","A","B","C","D","E","F">>)

hextable ==
  Str(<<"0","1","2","3","4","5","6","7","8","9","a","b","c","d","e","f">>)

\* dst[j*2] = hextable[v>>4]; dst[j*2+1] = hextable[v&0x0f]
HexEncodeToString(src) ==
  [k \in 1..(2 * Len(src)) |->
     LET v == src[(k + 1) \div 2]
     IN  IF k % 2 = 1 THEN hextable[(v \div 16) + 1] ELSE hextable[(v % 16) + 1]]

\* ------------------------------------------------------------------------
\* crypto/sha256: Sum256 (FIPS 180-4), on words <<hi, lo>> of 16-bit halves
\* ------------------------------------------------------------------------

\* Bit k of x.
Bit(x, k) == (x \div (2^k)) % 2

\* x ^ y and x & y on bytes.
Xor8(x, y) ==
    ((Bit(x, 0) + Bit(y, 0)) % 2)       + ((Bit(x, 1) + Bit(y, 1)) % 2) * 2
  + ((Bit(x, 2) + Bit(y, 2)) % 2) * 4   + ((Bit(x, 3) + Bit(y, 3)) % 2) * 8
  + ((Bit(x, 4) + Bit(y, 4)) % 2) * 16  + ((Bit(x, 5) + Bit(y, 5)) % 2) * 32
  + ((Bit(x, 6) + Bit(y, 6)) % 2) * 64  + ((Bit(x, 7) + Bit(y, 7)) % 2) * 128

And8(x, y) ==
    (Bit(x, 0) * Bit(y, 0))       + (Bit(x, 1) * Bit(y, 1)) * 2
  + (Bit(x, 2) * Bit(y, 2)) * 4   + (Bit(x, 3) * Bit(y, 3)) * 8
  + (Bit(x, 4) * Bit(y, 4)) * 16  + (Bit(x, 5) * Bit(y, 5)) * 32
  + (Bit(x, 6) * Bit(y, 6)) * 64  + (Bit(x, 7) * Bit(y, 7)) * 128

\* The same as tables: entry 256*a + b + 1 is for the bytes a and b.
XorTab == [i \in 1..65536 |-> Xor8((i - 1) \div 256, (i - 1) % 256)] \o << >>
AndTab == [i \in 1..65536 |-> And8((i - 1) \div 256, (i - 1) % 256)] \o << >>

\* x ^ y and x & y on 16-bit halves.
Xor16(x, y) ==
  XorTab[(x % 256) * 256 + (y % 256) + 1] + 256 * XorTab[(x \div 256) * 256 + (y \div 256) + 1]

And16(x, y) ==
  AndTab[(x % 256) * 256 + (y % 256) + 1] + 256 * AndTab[(x \div 256) * 256 + (y \div 256) + 1]

WXor(x, y) == <<Xor16(x[1], y[1]), Xor16(x[2], y[2])>>
WAnd(x, y) == <<And16(x[1], y[1]), And16(x[2], y[2])>>
WNot(x) == <<65535 - x[1], 65535 - x[2]>>

\* x + y modulo 2^32
WAdd(x, y) ==
  LET lo == x[2] + y[2]
  IN  <<(x[1] + y[1] + (lo \div 65536)) % 65536, lo % 65536>>

\* bits.RotateLeft32(x, -n), 0 < n < 32
RotR(x, n) ==
  LET h == IF n >= 16 THEN x[2] ELSE x[1]
      l == IF n >= 16 THEN x[1] ELSE x[2]
      m == n % 16
  IN  <<(h \div (2^m)) + (l % (2^m)) * (2^(16 - m)),
        (l \div (2^m)) + (h % (2^m)) * (2^(16 - m))>>

\* x >> n, 0 < n < 16
ShR(x, n) ==
  <<x[1] \div (2^n), (x[2] \div (2^n)) + (x[1] % (2^n)) * (2^(16 - n))>>

_K ==
<<
  <<17034, 12184>>, <<28983, 17553>>, <<46528, 64463>>, <<59829, 56229>>,
  <<14678, 49755>>, <<23025, 4593>>, <<37439, 33444>>, <<43804, 24277>>,
  <<55303, 43672>>, <<4739, 23297>>, <<9265, 34238>>, <<21772, 32195>>,
  <<29374, 23924>>, <<32990, 45566>>, <<39900, 1703>>, <<49563, 61812>>,
  <<58523, 27073>>, <<61374, 18310>>, <<4033, 40390>>, <<9228, 41420>>,
  <<11753, 11375>>, <<19060, 33962>>, <<23728, 43484>>, <<30457, 35034>>,
  <<38974, 20818>>, <<43057, 50797>>, <<45059, 10184>>, <<48985, 32711>>,
  <<50912, 3059>>, <<54695, 37191>>, <<1738, 25425>>, <<5161, 10599>>,
  <<10167, 2693>>, <<11803, 8504>>, <<19756, 28156>>, <<21304, 3347>>,
  <<25866, 29524>>, <<30314, 2747>>, <<33218, 51502>>, <<37490, 11397>>,
  <<41663, 59553>>, <<43034, 26187>>, <<49739, 35696>>, <<51052, 20899>>,
  <<53650, 59417>>, <<54937, 1572>>, <<62478, 13701>>, <<4202, 41072>>,
  <<6564, 49430>>, <<7735, 27656>>, <<10056, 30540>>, <<13488, 48309>>,
  <<14620, 3251>>, <<20184, 43594>>, <<23452, 51791>>, <<26670, 28659>>,
  <<29839, 33518>>, <<30885, 25455>>, <<33992, 30740>>, <<36039, 520>>,
  <<37054, 65530>>, <<42064, 27883>>, <<48889, 41975>>, <<50801, 30962>> >>

init ==
<<
  <<27145, 58983>>, <<47975, 44677>>, <<15470, 62322>>, <<42319, 62778>>,
  <<20750, 21119>>, <<39685, 26764>>, <<8067, 55723>>, <<23520, 52505>> >>

\* Mutant of Padded: the padding starts with a zero byte instead of 0x80.
PaddedNoBit(msg) ==
  msg \o [i \in 1..(1 + ((119 - (Len(msg) % 64)) % 64)) |-> 0]
      \o <<0, 0, 0, 0, 0, 0, (Len(msg) * 8) \div 256, (Len(msg) * 8) % 256>>

\* The message with the padding of the final Write: 0x80, zeros up to 56
\* modulo 64, and the length in bits as a 64-bit big-endian integer.
RECURSIVE BigEndian(_, _)
BigEndian(v, nbytes) ==
  IF nbytes = 0 THEN << >> ELSE Append(BigEndian(v \div 256, nbytes - 1), v % 256)

Padded(msg) ==
  LET len == Len(msg)
      zeros == (119 - (len % 64)) % 64
  IN  msg \o <<128>> \o [i \in 1..zeros |-> 0] \o BigEndian(len * 8, 8)

\* The 16 big-endian words of the block that starts at byte j (0-based).
BlockWords(p, j) ==
  [i \in 1..16 |-> <<p[j + 4*(i-1) + 1] * 256 + p[j + 4*(i-1) + 2],
                     p[j + 4*(i-1) + 3] * 256 + p[j + 4*(i-1) + 4]>>]

\* The message schedule extended by its next word.
Extend(w) ==
  LET i == Len(w) + 1
      v1 == w[i - 2]
      t1 == WXor(WXor(RotR(v1, 17), RotR(v1, 19)), ShR(v1, 10))
      v2 == w[i - 15]
      t2 == WXor(WXor(RotR(v2, 7), RotR(v2, 18)), ShR(v2, 3))
  IN  Append(w, WAdd(WAdd(t1, w[i - 7]), WAdd(t2, w[i - 16])))

\* for i := 16; i < 64; i++ { w[i] = ... }
Schedule(w16) == Iterate(LAMBDA w, i : Extend(w), w16, 17, 64)

\* One round on the working variables v = <<a, b, c, d, e, f, g, h>>.
Round(v, kw) ==
  LET a == v[1]  b == v[2]  c == v[3]  d == v[4]
      e == v[5]  f == v[6]  g == v[7]  h == v[8]
      t1 == WAdd(WAdd(WAdd(h, WXor(WXor(RotR(e, 6), RotR(e, 11)), RotR(e, 25))),
                      WXor(WAnd(e, f), WAnd(WNot(e), g))),
                 kw)
      t2 == WAdd(WXor(WXor(RotR(a, 2), RotR(a, 13)), RotR(a, 22)),
                 WXor(WXor(WAnd(a, b), WAnd(a, c)), WAnd(b, c)))
  IN  <<WAdd(t1, t2), a, b, c, WAdd(d, t1), e, f, g>>

\* One 64-byte block, starting at byte j (0-based) of p, folded into the
\* chaining value h.
block1(h, p, j) ==
  LET v == CHOOSE r \in {Iterate(LAMBDA x, i : Round(x, WAdd(_K[i], w[i])), h, 1, 64) :
                           w \in {Schedule(BlockWords(p, j))}} : TRUE
  IN  <<WAdd(h[1], v[1]), WAdd(h[2], v[2]), WAdd(h[3], v[3]), WAdd(h[4], v[4]),
        WAdd(h[5], v[5]), WAdd(h[6], v[6]), WAdd(h[7], v[7]), WAdd(h[8], v[8])>>

\* block: all the blocks of p folded into the chaining value h.
block(h, p) == Iterate(LAMBDA x, b : block1(x, p, 64 * b), h, 0, (Len(p) \div 64) - 1)

\* The digest: the eight words of h, big-endian.
DigestBytes(h) ==
  [k \in 1..32 |->
     LET half == h[((k - 1) \div 4) + 1][(((k - 1) % 4) \div 2) + 1]
     IN  IF k % 2 = 1 THEN half \div 256 ELSE half % 256]

Sum256(data) ==
  CHOOSE d \in {DigestBytes(h) : h \in {block(init, Padded(data))}} : TRUE

\* ------------------------------------------------------------------------
\* package crypto
\* ------------------------------------------------------------------------

\* func HashToken(token string) string, as one expression.
HashToken(token) == HexEncodeToString(Sum256(token))

\* ------------------------------------------------------------------------
\* Bounds of the model
\* ------------------------------------------------------------------------

NProcs == 2        \* goroutines calling into package crypto
MaxCalls == 2      \* calls started in one behaviour
MaxSeed == 1       \* the random source delivers MaxSeed + 1 byte patterns

\* ------------------------------------------------------------------------
\* package crypto as a state machine: NProcs goroutines, each call a
\* sequence of steps on the goroutine's own locals
\* ------------------------------------------------------------------------

TokenBytes == 64   \* make([]byte, 64)

Procs == 1..NProcs
Nil == "nil"

\* What crypto/rand can deliver: a pattern of TokenBytes bytes ...
RandomBytes(c) == [i \in 1..TokenBytes |-> (255 * c + 37 * c * i) % 256]
RandomSource == {RandomBytes(c) : c \in 0..MaxSeed}
\* ... or an error; what it then left in the buffer is never read.
RandErrors == {"EAGAIN", "ENOSYS"}

Zeros(n) == [i \in 1..n |-> 0]
EmptyString == << >>

\* Strings a caller may pass to HashToken besides the tokens it was issued.
CallerStrings == {EmptyString, Str(<<"a","b","c">>), Zeros(56)}

VARIABLES
  pc,       \* pc[p]: where goroutine p stands
  genB,     \* genB[p]: the local b of p's call of GenerateRefreshToken
  hashToken,\* hashToken[p]: the parameter token of p's call of HashToken
  hashH,    \* hashH[p]: the local h of p's call of HashToken
  retStr,   \* retStr[p]: the string p's call returned
  retErr,   \* retErr[p]: the error p's call returned
  reads,    \* reads[p]: calls of rand.Read made by p's current call
  srcErr,   \* srcErr[p]: the error rand.Read returned to p's current call
  srcBytes, \* srcBytes[p]: the bytes rand.Read delivered to p's current call
  issued,   \* the tokens returned to callers so far
  hashed,   \* <<input, output>> of the HashToken calls completed so far
  ncalls    \* calls started so far

cryptoVars == <<pc, genB, hashToken, hashH, retStr, retErr, reads, srcErr, srcBytes,
                issued, hashed, ncalls>>

\* The state of package logx1 and of what it rests on (the zap globals, the
\* contexts made so far, the entries written), and the records of the calls made.
VARIABLES
  syncL,        \* the argument of the last call of Sync
  syncErr,      \* what l.Sync() returned to it
  syncRet,      \* what it returned
  globalL,      \* zap's global logger
  globalLocked, \* zap's global mutex is held for good (ReplaceGlobals panicked)
  undo,         \* what the restore function ReplaceGlobals returned last installs
  ctxNodes,     \* the contexts derived so far: parent, key and value of each
  stored,       \* stored[c]: what the last WithContext on c's chain stored
  fcCtx,        \* <<ctx>> while a call FromContext(ctx) hands over its result
  fcRet,        \* what it returns
  entries,      \* the entries written through zap's Logger.Error, in order
  leCalls,      \* the arguments of the calls of LogError, in order
  newMode,      \* the argument of the last call of New
  newRet        \* the preset it returned

syncVars == <<syncL, syncErr, syncRet>>
ctxVars == <<ctxNodes, stored, fcCtx, fcRet>>
globalVars == <<globalL, globalLocked, undo>>
logVars == <<entries, leCalls>>
newVars == <<newMode, newRet>>
logxVars == <<syncVars, ctxVars, globalVars, logVars, newVars>>

InitCrypto ==
  /\ pc = [p \in Procs |-> "idle"]
  /\ genB = [p \in Procs |-> << >>]
  /\ hashToken = [p \in Procs |-> << >>]
  /\ hashH = [p \in Procs |-> << >>]
  /\ retStr = [p \in Procs |-> << >>]
  /\ retErr = [p \in Procs |-> Nil]
  /\ reads = [p \in Procs |-> 0]
  /\ srcErr = [p \in Procs |-> Nil]
  /\ srcBytes = [p \in Procs |-> << >>]
  /\ issued = {}
  /\ hashed = {}
  /\ ncalls = 0

\* Goroutines are interchangeable: a new call runs on the first idle one.
Free(p) == pc[p] = "idle" /\ \A q \in Procs : q < p => pc[q] # "idle"

\* b := make([]byte, 64)
GenMake(p) ==
  /\ Free(p)
  /\ ncalls < MaxCalls
  /\ ncalls' = ncalls + 1
  /\ genB' = [genB EXCEPT ![p] = Zeros(TokenBytes)]
  /\ pc' = [pc EXCEPT ![p] = "read"]
  /\ UNCHANGED <<hashToken, hashH, retStr, retErr, reads, srcErr, srcBytes, issued, hashed>>
  /\ UNCHANGED logxVars

\* Mutant of GenReadOk: the buffer is one package-level slice, shared by all
\* the goroutines.
GenReadOkShared(p, bytes) ==
  /\ pc[p] = "read"
  /\ genB' = [q \in Procs |-> IF q = p \/ pc[q] = "encode" THEN bytes ELSE genB[q]]
  /\ reads' = [reads EXCEPT ![p] = @ + 1]
  /\ srcBytes' = [srcBytes EXCEPT ![p] = bytes]
  /\ srcErr' = [srcErr EXCEPT ![p] = Nil]
  /\ pc' = [pc EXCEPT ![p] = "encode"]
  /\ UNCHANGED <<hashToken, hashH, retStr, retErr, issued, hashed, ncalls>>
  /\ UNCHANGED logxVars

\* rand.Read(b) returns err == nil: b is filled.
GenReadOk(p, bytes) ==
  /\ pc[p] = "read"
  /\ genB' = [genB EXCEPT ![p] = bytes]
  /\ reads' = [reads EXCEPT ![p] = @ + 1]
  /\ srcBytes' = [srcBytes EXCEPT ![p] = bytes]
  /\ srcErr' = [srcErr EXCEPT ![p] = Nil]
  /\ pc' = [pc EXCEPT ![p] = "encode"]
  /\ UNCHANGED <<hashToken, hashH, retStr, retErr, issued, hashed, ncalls>>
  /\ UNCHANGED logxVars

\* Mutant of GenReadErr: the failed read is tried again.
GenReadErrRetry(p, e) ==
  /\ pc[p] = "read"
  /\ reads[p] < 2
  /\ reads' = [reads EXCEPT ![p] = @ + 1]
  /\ UNCHANGED <<pc, genB, hashToken, hashH, retStr, retErr, srcErr, srcBytes,
                 issued, hashed, ncalls>>
  /\ UNCHANGED logxVars

\* rand.Read(b) returns err != nil: return "", err
GenReadErr(p, e) ==
  /\ pc[p] = "read"
  /\ reads' = [reads EXCEPT ![p] = @ + 1]
  /\ srcErr' = [srcErr EXCEPT ![p] = e]
  /\ retStr' = [retStr EXCEPT ![p] = EmptyString]
  /\ retErr' = [retErr EXCEPT ![p] = e]
  /\ pc' = [pc EXCEPT ![p] = "gen_done"]
  /\ UNCHANGED <<genB, hashToken, hashH, srcBytes, issued, hashed, ncalls>>
  /\ UNCHANGED logxVars

\* return base64.RawURLEncoding.EncodeToString(b), nil
GenEncode(p) ==
  /\ pc[p] = "encode"
  /\ retStr' = [retStr EXCEPT ![p] = EncodeToString(genB[p])]
  /\ retErr' = [retErr EXCEPT ![p] = Nil]
  /\ pc' = [pc EXCEPT ![p] = "gen_done"]
  /\ UNCHANGED <<genB, hashToken, hashH, reads, srcErr, srcBytes, issued, hashed, ncalls>>
  /\ UNCHANGED logxVars

\* The caller takes what GenerateRefreshToken returned; the call is over.
GenReturn(p) ==
  /\ pc[p] = "gen_done"
  /\ issued' = IF retErr[p] = Nil THEN issued \cup {retStr[p]} ELSE issued
  /\ genB' = [genB EXCEPT ![p] = << >>]
  /\ retStr' = [retStr EXCEPT ![p] = << >>]
  /\ retErr' = [retErr EXCEPT ![p] = Nil]
  /\ reads' = [reads EXCEPT ![p] = 0]
  /\ srcErr' = [srcErr EXCEPT ![p] = Nil]
  /\ srcBytes' = [srcBytes EXCEPT ![p] = << >>]
  /\ pc' = [pc EXCEPT ![p] = "idle"]
  /\ UNCHANGED <<hashToken, hashH, hashed, ncalls>>
  /\ UNCHANGED logxVars

\* HashToken(s) is called.
HashCall(p, s) ==
  /\ Free(p)
  /\ ncalls < MaxCalls
  /\ ncalls' = ncalls + 1
  /\ hashToken' = [hashToken EXCEPT ![p] = s]
  /\ pc' = [pc EXCEPT ![p] = "sum"]
  /\ UNCHANGED <<genB, hashH, retStr, retErr, reads, srcErr, srcBytes, issued, hashed>>
  /\ UNCHANGED logxVars

\* Mutant of HashBody: one digest for the package, never reset, so that it
\* still holds the input of a call completed before.
HashBodyStale(p) ==
  /\ pc[p] = "sum"
  /\ \E h \in {Sum256((IF hashed = {} THEN << >> ELSE (CHOOSE x \in hashed : TRUE)[1])
                        \o hashToken[p])} :
       /\ hashH' = [hashH EXCEPT ![p] = h]
       /\ retStr' = [retStr EXCEPT ![p] = HexEncodeToString(h)]
  /\ retErr' = [retErr EXCEPT ![p] = Nil]
  /\ pc' = [pc EXCEPT ![p] = "hash_done"]
  /\ UNCHANGED <<genB, hashToken, reads, srcErr, srcBytes, issued, hashed, ncalls>>
  /\ UNCHANGED logxVars

\* h := sha256.Sum256([]byte(token)); return hex.EncodeToString(h[:])
HashBody(p) ==
  /\ pc[p] = "sum"
  /\ \E h \in {Sum256(hashToken[p])} :
       /\ hashH' = [hashH EXCEPT ![p] = h]
       /\ retStr' = [retStr EXCEPT ![p] = HexEncodeToString(h)]
  /\ retErr' = [retErr EXCEPT ![p] = Nil]
  /\ pc' = [pc EXCEPT ![p] = "hash_done"]
  /\ UNCHANGED <<genB, hashToken, reads, srcErr, srcBytes, issued, hashed, ncalls>>
  /\ UNCHANGED logxVars

\* The caller takes what HashToken returned; the call is over.
HashReturn(p) ==
  /\ pc[p] = "hash_done"
  /\ hashed' = hashed \cup {<<hashToken[p], retStr[p]>>}
  /\ hashToken' = [hashToken EXCEPT ![p] = << >>]
  /\ hashH' = [hashH EXCEPT ![p] = << >>]
  /\ retStr' = [retStr EXCEPT ![p] = << >>]
  /\ pc' = [pc EXCEPT ![p] = "idle"]
  /\ UNCHANGED <<genB, retErr, reads, srcErr, srcBytes, issued, ncalls>>
  /\ UNCHANGED logxVars

NextCrypto ==
  \E p \in Procs :
    \/ GenMake(p)
    \/ \E bytes \in RandomSource : GenReadOk(p, bytes)
    \/ \E e \in RandErrors : GenReadErr(p, e)
    \/ GenEncode(p)
    \/ GenReturn(p)
    \/ \E s \in CallerStrings \cup issued : HashCall(p, s)
    \/ HashBody(p)
    \/ HashReturn(p)


\* ------------------------------------------------------------------------
\* Errors: error values as trees, and errors.Is / errors.As on them
\* ------------------------------------------------------------------------

MaxWrap == 1       \* wrappers (os.PathError, fmt.Errorf %w) around an errno

NilErr == [kind |-> "nil", code |-> "", errs |-> << >>]
Errno(c) == [kind |-> "errno", code |-> c, errs |-> << >>]           \* syscall.Errno
PathError(e) == [kind |-> "path", code |-> "sync", errs |-> <<e>>]   \* &os.PathError{Op: "sync", Err: e}
Wrapped(e) == [kind |-> "wrap", code |-> "", errs |-> <<e>>]         \* fmt.Errorf("...: %w", e)
Multi(e1, e2) == [kind |-> "multi", code |-> "", errs |-> <<e1, e2>>]  \* multierr.Append(e1, e2)

EINVAL == Errno("EINVAL")
ENOTTY == Errno("ENOTTY")

\* The errnos a sync can fail with: the two benign ones and two real ones.
Errnos == {EINVAL, ENOTTY, Errno("EIO"), Errno("ENOSPC")}

\* An errno under at most n wrappers.
RECURSIVE Chains(_)
Chains(n) ==
  IF n = 0 THEN Errnos
  ELSE LET shorter == Chains(n - 1)
       IN  shorter \cup {PathError(e) : e \in shorter} \cup {Wrapped(e) : e \in shorter}

\* What l.Sync() can return: nil, the error of one output, or the errors of
\* two outputs (zap combines the errors of a tee of cores with multierr).
SyncErrors ==
  LET chains == Chains(MaxWrap)
  IN  {NilErr} \cup chains \cup {Multi(e1, e2) : e1 \in chains, e2 \in chains}

\* errors.Is(err, target) for a comparable target that is not nil: walk the
\* tree of err depth-first, through Unwrap() error and Unwrap() []error.
RECURSIVE is(_, _)
is(err, target) ==
  \/ err = target
  \/ /\ err.kind \in {"path", "wrap"}
     /\ err.errs[1] # NilErr
     /\ is(err.errs[1], target)
  \/ /\ err.kind = "multi"
     /\ \E i \in 1..Len(err.errs) : is(err.errs[i], target)

Is(err, target) == IF err = NilErr THEN FALSE ELSE is(err, target)

\* errors.As(err, &perr) with perr of type *os.PathError: the first
\* *os.PathError of the tree, depth-first, or NilErr when As returns false.
RECURSIVE AsPathError(_)
AsPathError(err) ==
  IF err.kind = "path" THEN err
  ELSE IF err.kind = "wrap" THEN AsPathError(err.errs[1])
  ELSE IF err.kind = "multi"
       THEN LET found == {i \in 1..Len(err.errs) : AsPathError(err.errs[i]) # NilErr}
            IN  IF found = {} THEN NilErr
                ELSE AsPathError(err.errs[CHOOSE i \in found : \A j \in found : i <= j])
  ELSE NilErr

\* ------------------------------------------------------------------------
\* package logx1: loggers
\* ------------------------------------------------------------------------

\* A *zap.Logger: the core it writes to and the fields attached with With.
Logger(name) == [name |-> name, fields |-> << >>]
NilLogger == Logger("nil")
NopLogger == Logger("nop")       \* zap's global logger before ReplaceGlobals
Loggers == {Logger("A"), Logger("B")}

\* l.With(fields...)
With(l, fields) == [l EXCEPT !.fields = @ \o fields]

\* zap.String(key, val), zap.Error(err): a field of an entry
String(key, val) == [key |-> key, str |-> val, err |-> NilErr]
Error(err) == [key |-> "error", str |-> "", err |-> err]

\* ------------------------------------------------------------------------
\* logx1.Sync
\* ------------------------------------------------------------------------

\* func Sync(l *zap.Logger) error, where l.Sync() returns syncResult.
Sync(l, syncResult) ==
  IF l = NilLogger THEN NilErr
  ELSE LET err == syncResult
           perr == AsPathError(err)
       IN  IF err = NilErr THEN NilErr
           ELSE IF Is(err, EINVAL) \/ Is(err, ENOTTY) THEN NilErr
           ELSE IF perr # NilErr /\ (Is(perr, EINVAL) \/ Is(perr, ENOTTY)) THEN NilErr
           ELSE err

\* No call of Sync was made.
IdleSync ==
  /\ syncL = NilLogger
  /\ syncErr = NilErr
  /\ syncRet = <<"pending">>

\* Sync(l) is about to be called, and l.Sync() is going to return e; it is
\* not called for a nil logger.
InitSync ==
  /\ syncL \in Loggers \cup {NilLogger}
  /\ syncErr \in IF syncL = NilLogger THEN {NilErr} ELSE SyncErrors
  /\ syncRet = <<"pending">>

\* The call of Sync.
SyncCall ==
  /\ syncRet = <<"pending">>
  /\ syncRet' = <<"returned", Sync(syncL, syncErr)>>
  /\ UNCHANGED <<syncL, syncErr>>
  /\ UNCHANGED <<cryptoVars, ctxVars, globalVars, logVars, newVars>>

NextSync == SyncCall

\* ------------------------------------------------------------------------
\* zap's globals: ReplaceGlobals, L
\* ------------------------------------------------------------------------

InitGlobals ==
  /\ globalL = NopLogger
  /\ globalLocked = FALSE
  /\ undo = NilLogger

\* ReplaceGlobals(logger), logger not nil: installs it and returns the
\* function that restores the previous global logger.
ReplaceGlobals(logger) ==
  /\ ~globalLocked
  /\ logger # NilLogger
  /\ globalL' = logger
  /\ undo' = globalL
  /\ UNCHANGED globalLocked

\* ReplaceGlobals(nil): zap stores nil, then panics in logger.Sugar() while
\* it holds the mutex of the globals, which is never released.
ReplaceGlobalsNil ==
  /\ ~globalLocked
  /\ globalL' = NilLogger
  /\ globalLocked' = TRUE
  /\ UNCHANGED undo

\* The restore function returned last is called: ReplaceGlobals(prev).
Restore == ReplaceGlobals(undo)

\* ------------------------------------------------------------------------
\* logx1: WithContext, FromContext, AttachRequest
\* ------------------------------------------------------------------------

MaxCtx == 2        \* contexts derived in one behaviour

NilCtx == -1       \* a nil context.Context
Background == 0    \* context.Background()

\* ctx.Value finds nothing: the nil interface, which is no *zap.Logger.
Absent == Logger("absent")

\* context.WithValue(parent, key, val)
WithValue(parent, key, val) == [parent |-> parent, key |-> key, val |-> val]

Contexts == 0..Len(ctxNodes)

\* ctx.Value(key): the value of the nearest context of the chain made with key.
RECURSIVE Value(_, _)
Value(ctx, key) ==
  IF ctx = Background THEN Absent
  ELSE IF ctxNodes[ctx].key = key THEN ctxNodes[ctx].val
  ELSE Value(ctxNodes[ctx].parent, key)

\* func WithContext(ctx context.Context, logger *zap.Logger) context.Context
WithContext(ctx, logger) ==
  WithValue(IF ctx = NilCtx THEN Background ELSE ctx, "ctxKey", logger)

\* FromContext(ctx) reads zap.L().
FromContextReadsGlobal(ctx) ==
  \/ ctx = NilCtx
  \/ Value(ctx, "ctxKey") \in {Absent, NilLogger}

\* Mutant of FromContext: without the test logger != nil.
FromContextUnchecked(ctx) ==
  IF ctx # NilCtx /\ Value(ctx, "ctxKey") # Absent
  THEN Value(ctx, "ctxKey")
  ELSE globalL

\* func FromContext(ctx context.Context) *zap.Logger
FromContext(ctx) ==
  IF ctx # NilCtx /\ Value(ctx, "ctxKey") # Absent /\ Value(ctx, "ctxKey") # NilLogger
  THEN Value(ctx, "ctxKey")
  ELSE globalL

\* The logger AttachRequest stores.
AttachRequestLogger(ctx, reqID, clientIP) ==
  LET l0 == FromContext(ctx)
      l1 == IF reqID # "" THEN With(l0, <<String("request_id", reqID)>>) ELSE l0
  IN  IF clientIP # "" THEN With(l1, <<String("client_ip", clientIP)>>) ELSE l1

\* What the last WithContext on the chain of ctx stored, Absent if there was none.
StoredOf(ctx) == IF ctx \in {NilCtx, Background} THEN Absent ELSE stored[ctx]

InitCtx ==
  /\ ctxNodes = << >>
  /\ stored = << >>
  /\ fcCtx = << >>
  /\ fcRet = NilLogger

\* A call of WithContext(ctx, logger); the caller keeps the context returned.
WithContextCall(ctx, logger) ==
  /\ Len(ctxNodes) < MaxCtx
  /\ ctxNodes' = Append(ctxNodes, WithContext(ctx, logger))
  /\ stored' = Append(stored, logger)
  /\ fcCtx = << >>
  /\ UNCHANGED <<fcCtx, fcRet>>
  /\ UNCHANGED <<cryptoVars, syncVars, globalVars, logVars, newVars>>

\* Some other package derives a context with a key of its own.
WithValueCall(ctx) ==
  /\ Len(ctxNodes) < MaxCtx
  /\ ctxNodes' = Append(ctxNodes, WithValue(ctx, "other", Absent))
  /\ stored' = Append(stored, StoredOf(ctx))
  /\ fcCtx = << >>
  /\ UNCHANGED <<fcCtx, fcRet>>
  /\ UNCHANGED <<cryptoVars, syncVars, globalVars, logVars, newVars>>

\* A call of AttachRequest(ctx, reqID, clientIP); it returns only if the
\* FromContext in it does.
AttachRequestCall(ctx, reqID, clientIP) ==
  /\ Len(ctxNodes) < MaxCtx
  /\ FromContextReadsGlobal(ctx) => ~globalLocked
  /\ ctxNodes' = Append(ctxNodes, WithContext(ctx, AttachRequestLogger(ctx, reqID, clientIP)))
  /\ stored' = Append(stored, AttachRequestLogger(ctx, reqID, clientIP))
  /\ fcCtx = << >>
  /\ UNCHANGED <<fcCtx, fcRet>>
  /\ UNCHANGED <<cryptoVars, syncVars, globalVars, logVars, newVars>>

\* A call of FromContext(ctx) that returns: zap.L() blocks for good once the
\* mutex of the globals is held.
FromContextCall(ctx) ==
  /\ fcCtx = << >>
  /\ FromContextReadsGlobal(ctx) => ~globalLocked
  /\ fcCtx' = <<ctx>>
  /\ fcRet' = FromContext(ctx)
  /\ UNCHANGED <<ctxNodes, stored>>
  /\ UNCHANGED <<cryptoVars, syncVars, globalVars, logVars, newVars>>

\* The caller has taken the logger; the program goes on.
FromContextReturn ==
  /\ fcCtx # << >>
  /\ fcCtx' = << >>
  /\ fcRet' = NilLogger
  /\ UNCHANGED <<ctxNodes, stored>>
  /\ UNCHANGED <<cryptoVars, syncVars, globalVars, logVars, newVars>>

\* Calls of ReplaceGlobals and of the functions it returned, seen from the
\* context helpers.
ReplaceGlobalsCall(logger) ==
  /\ fcCtx = << >>
  /\ ReplaceGlobals(logger)
  /\ UNCHANGED <<cryptoVars, syncVars, ctxVars, logVars, newVars>>

ReplaceGlobalsNilCall ==
  /\ fcCtx = << >>
  /\ ReplaceGlobalsNil
  /\ UNCHANGED <<cryptoVars, syncVars, ctxVars, logVars, newVars>>

RestoreCall ==
  /\ fcCtx = << >>
  /\ Restore
  /\ UNCHANGED <<cryptoVars, syncVars, ctxVars, logVars, newVars>>

ReqIDs == {"", "r1"}
ClientIPs == {"", "10.0.0.1"}

NextCtx ==
  \/ \E ctx \in Contexts \cup {NilCtx}, logger \in Loggers \cup {NilLogger} :
       WithContextCall(ctx, logger)
  \/ \E ctx \in Contexts : WithValueCall(ctx)
  \/ \E ctx \in Contexts \cup {NilCtx}, reqID \in ReqIDs, clientIP \in ClientIPs :
       AttachRequestCall(ctx, reqID, clientIP)
  \/ \E ctx \in Contexts \cup {NilCtx} : FromContextCall(ctx)
  \/ FromContextReturn
  \/ \E logger \in Loggers : ReplaceGlobalsCall(logger)
  \/ ReplaceGlobalsNilCall
  \/ RestoreCall

\* ------------------------------------------------------------------------
\* logx1.LogError
\* ------------------------------------------------------------------------

MaxEntries == 2    \* calls of LogError in one behaviour

\* Mutant of LogError: the error is not appended to the fields.
LogErrorDropsErr(l, err, msg, fields) ==
  [logger |-> IF l = NilLogger THEN globalL ELSE l,
   level |-> "error",
   msg |-> msg,
   fields |-> fields]

\* func LogError(l *zap.Logger, err error, msg string, fields ...zap.Field):
\* the entry that its call l.Error(msg, fields...) hands to the logger.
LogError(l, err, msg, fields) ==
  [logger |-> IF l = NilLogger THEN globalL ELSE l,
   level |-> "error",
   msg |-> msg,
   fields |-> IF err # NilErr THEN Append(fields, Error(err)) ELSE fields]

InitLog ==
  /\ entries = << >>
  /\ leCalls = << >>

\* A call of LogError that returns: with a nil logger it reads zap.L().
LogErrorCall(l, err, msg, fields) ==
  /\ Len(leCalls) < MaxEntries
  /\ l = NilLogger => ~globalLocked
  /\ entries' = Append(entries, LogError(l, err, msg, fields))
  /\ leCalls' = Append(leCalls, [l |-> l, err |-> err, msg |-> msg,
                                 fields |-> fields, global |-> globalL])
  /\ UNCHANGED <<cryptoVars, syncVars, ctxVars, globalVars, newVars>>

LogErrs == {NilErr, PathError(Errno("EIO"))}
LogMsgs == {"", "sync failed"}
LogFields == {<< >>, <<String("user", "u1"), String("error", "mine")>>}

NextLog ==
  \/ \E l \in {Logger("A"), NilLogger}, err \in LogErrs, msg \in LogMsgs,
        fields \in LogFields : LogErrorCall(l, err, msg, fields)
  \/ \E logger \in Loggers : ReplaceGlobalsCall(logger)
  \/ ReplaceGlobalsNilCall
  \/ RestoreCall

\* ------------------------------------------------------------------------
\* logx1.New
\* ------------------------------------------------------------------------

\* The string literals of New.
Prod == Str(<<"p","r","o","d">>)
Production == Str(<<"p","r","o","d","u","c","t","i","o","n">>)

\* Mutant of normalized: the lowered byte is not stored.
normalizedCopy(s) == [i \in 1..Len(s) |-> s[i]]

\* func normalized(s string) string
normalized(s) ==
  [i \in 1..Len(s) |-> IF 65 <= s[i] /\ s[i] <= 90 THEN s[i] - 65 + 97 ELSE s[i]]

\* func New(mode string): the preset it returns the logger of.
New(mode) ==
  IF normalized(mode) \in {Prod, Production}
  THEN "production"
  ELSE "development"

\* The mode strings tried: words in every mix of upper and lower case, the
\* shortest accepted one also with one byte replaced or a space added.
Words == {Prod, Production, Str(<<"p","r","o","d","s">>), Str(<<"d","e","v">>), << >>}
OtherBytes == {32, 64, 196}

Cased(s, mask) ==
  [i \in 1..Len(s) |-> IF Bit(mask, i - 1) = 1 /\ 97 <= s[i] /\ s[i] <= 122
                       THEN s[i] - 32 ELSE s[i]]

CaseMixes(s) == {Cased(s, mask) \o << >> : mask \in 0..(2^Len(s) - 1)}

Variants(s) ==
  {<<32>> \o s, s \o <<32>>} \cup {[s EXCEPT ![k] = x] : k \in 1..Len(s), x \in OtherBytes}

Modes == UNION {CaseMixes(s) : s \in Words \cup Variants(Prod)}

IdleNew ==
  /\ newMode = << >>
  /\ newRet = "pending"

\* New(mode) is about to be called.
InitNew ==
  /\ newMode \in Modes
  /\ newRet = "pending"

\* The call of New.
NewCall ==
  /\ newRet = "pending"
  /\ newRet' = New(newMode)
  /\ UNCHANGED newMode
  /\ UNCHANGED <<cryptoVars, syncVars, ctxVars, globalVars, logVars>>

NextNew == NewCall

\* ------------------------------------------------------------------------
\* Specifications
\* ------------------------------------------------------------------------

vars == <<cryptoVars, logxVars>>

\* package crypto
Init == InitCrypto /\ IdleSync /\ InitGlobals /\ InitCtx /\ InitLog /\ IdleNew
Next == NextCrypto
Spec == Init /\ [][Next]_vars

\* logx1.Sync
InitSpecSync == InitCrypto /\ InitSync /\ InitGlobals /\ InitCtx /\ InitLog /\ IdleNew
SpecSync == InitSpecSync /\ [][NextSync]_vars

\* logx1 context helpers and zap's globals
SpecCtx == Init /\ [][NextCtx]_vars

\* logx1.LogError and zap's globals
SpecLog == Init /\ [][NextLog]_vars

\* logx1.New
InitSpecNew == InitCrypto /\ IdleSync /\ InitGlobals /\ InitCtx /\ InitLog /\ InitNew
SpecNew == InitSpecNew /\ [][NextNew]_vars

\* ------------------------------------------------------------------------
\* Properties of package crypto
\* ------------------------------------------------------------------------

Upper == 65..90
Lower == 97..122
Digits == 48..57

\* [A-Za-z0-9_-]
URLSafeAlphabet == Upper \cup Lower \cup Digits \cup {45, 95}

\* [0-9a-f]
LowerHex == Digits \cup 97..102

\* C1: every successful call of GenerateRefreshToken returns a string of
\* exactly 86 characters, each of the unpadded URL-safe base64 alphabet
\* [A-Za-z0-9_-], whatever 64 bytes the random source supplied.
C1_TokenShape ==
  \A p \in Procs :
    (pc[p] = "gen_done" /\ retErr[p] = Nil) =>
      /\ Len(retStr[p]) = 86
      /\ \A i \in 1..Len(retStr[p]) : retStr[p][i] \in URLSafeAlphabet

\* A call returned a token that has both '-' and '_' in it.
C1_Witness ==
  \E p \in Procs :
    /\ pc[p] = "gen_done" /\ retErr[p] = Nil
    /\ \E i \in 1..Len(retStr[p]) : retStr[p][i] = 45
    /\ \E i \in 1..Len(retStr[p]) : retStr[p][i] = 95

\* C2: GenerateRefreshToken fails if and only if the read of the random
\* source fails; it then returns that error unmodified with an empty token;
\* it reads the random source exactly once; on success the error is nil.
C2_ErrorPropagation ==
  \A p \in Procs :
    pc[p] = "gen_done" =>
      /\ (retErr[p] # Nil) <=> (srcErr[p] # Nil)
      /\ retErr[p] = srcErr[p]
      /\ srcErr[p] # Nil => retStr[p] = EmptyString
      /\ reads[p] = 1

\* A call failed, and another call, made after or beside it, succeeded.
C2_Witness ==
  \E p \in Procs :
    /\ pc[p] = "gen_done" /\ srcErr[p] = "ENOSYS" /\ retErr[p] = "ENOSYS"
    /\ \/ issued # {}
       \/ \E q \in Procs : pc[q] = "gen_done" /\ retErr[q] = Nil

HexValue(c) == IF c \in Digits THEN c - 48 ELSE c - 97 + 10
HexDecode(s) == [k \in 1..(Len(s) \div 2) |-> 16 * HexValue(s[2*k - 1]) + HexValue(s[2*k])]

\* C4: HashToken returns, for every input and without an error, a string of
\* exactly 64 lowercase hexadecimal digits, the hex encoding of the 32-byte
\* digest.
C4_Fingerprint ==
  \A p \in Procs :
    pc[p] = "hash_done" =>
      /\ retErr[p] = Nil
      /\ Len(retStr[p]) = 64
      /\ \A i \in 1..Len(retStr[p]) : retStr[p][i] \in LowerHex
      /\ Len(hashH[p]) = 32
      /\ \A k \in 1..32 : HexDecode(retStr[p])[k] = hashH[p][k]

\* A string that is no token was hashed: one of 56 zero bytes, which needs a
\* second block for the padding.
C4_Witness ==
  \E p \in Procs : pc[p] = "hash_done" /\ hashToken[p] = Zeros(56) \o << >>

\* The constant as the specification writes it.
SpecEmptyDigest ==
  Str(<<"e","3","b","0","c","4","4","2","9","8","f","c","1","c","1","4",
        "9","a","f","b","f","4","c","8","9","9","6","f","b","9","2","4",
        "2","7","a","e","4","1","e","4","6","4","9","b","9","3","4","c",
        "a","4","9","5","9","9","1","b","7","8","5","2","b","8","5">>)

\* SHA-256 of the empty input (FIPS 180-4).
EmptyDigest ==
  Str(<<"e","3","b","0","c","4","4","2","9","8","f","c","1","c","1","4",
        "9","a","f","b","f","4","c","8","9","9","6","f","b","9","2","4",
        "2","7","a","e","4","1","e","4","6","4","9","b","9","3","4","c",
        "a","4","9","5","9","9","1","b","7","8","5","2","b","8","5","5">>)

\* C5 as stated: HashToken("") equals the string
\* e3b0c44298fc1c149afbf4c8996fb92427ae41e4649b934ca495991b7852b85.
C5_AsStated ==
  \A p \in Procs :
    (pc[p] = "hash_done" /\ hashToken[p] = EmptyString) =>
      \A i \in 1..Len(retStr[p]) :
        i <= Len(SpecEmptyDigest) /\ retStr[p][i] = SpecEmptyDigest[i]

\* C5 as amended: HashToken("") equals the digest of the empty input as 64
\* lowercase hexadecimal digits,
\* e3b0c44298fc1c149afbf4c8996fb92427ae41e4649b934ca495991b7852b855.
C5_EmptyDigest ==
  \A p \in Procs :
    (pc[p] = "hash_done" /\ hashToken[p] = EmptyString) =>
      /\ Len(retStr[p]) = Len(EmptyDigest)
      /\ \A i \in 1..Len(retStr[p]) : retStr[p][i] = EmptyDigest[i]

\* HashToken("") returned.
C5_Witness ==
  \E p \in Procs :
    pc[p] = "hash_done" /\ hashToken[p] = EmptyString /\ Len(retStr[p]) > 0

\* What each call returns when it runs alone: for GenerateRefreshToken on
\* each delivery of the random source, for HashToken on each string a caller
\* can pass (its own strings and the tokens that can be issued).
GenAlone == {<<x, EncodeToString(x)>> : x \in RandomSource}
HashAlone ==
  {<<s, HashToken(s)>> : s \in CallerStrings \cup {EncodeToString(x) : x \in RandomSource}}

\* C6: under every interleaving each call returns what it returns when run
\* alone with the same random bytes or the same input string.
C6_Isolation ==
  \A p \in Procs :
    /\ (pc[p] = "gen_done" /\ srcErr[p] = Nil) =>
         <<srcBytes[p], retStr[p]>> \in GenAlone
    /\ pc[p] = "hash_done" => <<hashToken[p], retStr[p]>> \in HashAlone

\* Two calls ran side by side, on different random bytes, and one returned.
C6_Witness ==
  \E p, q \in Procs :
    /\ p # q
    /\ pc[p] = "gen_done" /\ srcErr[p] = Nil
    /\ pc[q] \in {"encode", "gen_done"} /\ srcErr[q] = Nil
    /\ srcBytes[p] # srcBytes[q]

\* ------------------------------------------------------------------------
\* Properties of package logx1
\* ------------------------------------------------------------------------

BenignErrnos == {EINVAL, ENOTTY}

\* The errnos at the leaves of an error.
RECURSIVE Leaves(_)
Leaves(e) ==
  IF e.kind = "errno" THEN {e}
  ELSE UNION {Leaves(e.errs[i]) : i \in 1..Len(e.errs)}

\* EINVAL or ENOTTY, bare or inside an os.PathError.
OnlyBenign(e) == e \in BenignErrnos \cup {PathError(x) : x \in BenignErrnos}

\* The error is, or carries, an errno other than EINVAL and ENOTTY.
HasReal(e) == \E x \in Leaves(e) : x \notin BenignErrnos

\* C7: Sync returns nil for a nil logger, for a nil sync error and for a sync
\* error that is only EINVAL or ENOTTY (bare or inside an os.PathError); it
\* returns the sync error unchanged whenever that error is, or carries
\* alongside EINVAL/ENOTTY, any other real error.
C7_SyncFilter ==
  syncRet[1] = "returned" =>
    /\ (syncL = NilLogger \/ syncErr = NilErr \/ OnlyBenign(syncErr)) => syncRet[2] = NilErr
    /\ (syncL # NilLogger /\ HasReal(syncErr)) => syncRet[2] = syncErr

\* C8: FromContext(ctx) returns the logger most recently stored with
\* WithContext on ctx or its ancestors when that logger is not nil, and
\* otherwise the logger that is global at the moment of the call; it never
\* returns nil.
C8_FromContext ==
  fcCtx # << >> =>
    /\ fcRet = IF StoredOf(fcCtx[1]) \notin {Absent, NilLogger}
               THEN StoredOf(fcCtx[1])
               ELSE globalL
    /\ fcRet # NilLogger

\* FromContext found, through a context made by another package, a logger
\* that AttachRequest stored and that is not the global one.
C8_Witness ==
  /\ fcCtx # << >>
  /\ fcCtx[1] \in 1..Len(ctxNodes)
  /\ ctxNodes[fcCtx[1]].key = "other"
  /\ fcRet = StoredOf(fcCtx[1])
  /\ fcRet # globalL
  /\ Len(fcRet.fields) > 0

SameLetter(x, y) ==
  \/ x = y
  \/ x \in Upper /\ y = x + 32
  \/ x \in Lower /\ y = x - 32

\* s and t are equal without regard to letter case.
EqualFold(s, t) ==
  /\ Len(s) = Len(t)
  /\ \A i \in 1..Len(s) : SameLetter(s[i], t[i])

\* C10: New returns the production configuration exactly when the mode,
\* compared without regard to letter case, is "prod" or "production", and the
\* development configuration for anything else.
C10_New ==
  newRet # "pending" =>
    /\ newRet \in {"production", "development"}
    /\ newRet = "production" <=>
         (EqualFold(newMode, Prod) \/ EqualFold(newMode, Production))

\* New chose production for a mode in mixed case.
C10_Witness ==
  /\ newRet = "production"
  /\ \E i \in 1..Len(newMode) : newMode[i] \in Upper
  /\ \E i \in 1..Len(newMode) : newMode[i] \in Lower

====
